---- MODULE Spec2Model ----
(***************************************************************************)
(* glee: search a tree of Go sources for functions whose signature          *)
(* resembles a query.  main() walks the tree, extracts the function         *)
(* records of every file, parses the query, optionally filters the records  *)
(* ("includes" matching), ranks them by edit distance to the raw query and  *)
(* prints the ranked list up to a heuristic cut-off.                        *)
(*                                                                          *)
(* Strings are sequences of one-character strings, so that every string     *)
(* operation of the code (ReplaceAll, Split, TrimSpace, Join, Sprintf, the  *)
(* regular-expression match and the edit distance) is computed character    *)
(* by character.                                                            *)
(***************************************************************************)
EXTENDS Integers, Sequences, FiniteSets, TLC

VARIABLES
    args,       \* flag.Args(): <<>> or <<query>>
    match,      \* *match, the -match flag
    tree,       \* the directory tree in filepath.Walk order (the environment)
    pc,         \* position of main()
    uinput,     \* args[0]
    files,      \* []file discovered by the walk
    fileIdx,    \* index into files of the next file of the extraction loop
    processed,  \* paths announced by "Processing ..." so far, in order
    funcs,      \* []Func accumulated, then filtered
    inputs,     \* parsed query: requested input tokens
    outputs,    \* parsed query: requested output tokens
    fwd,        \* []FuncWithDistance returned by sortByDistance
    i,          \* index of the emission loop (0-based, as in the code)
    emitted     \* records printed by fmt.Println so far, in order

vars == <<args, match, tree, pc, uinput, files, fileIdx, processed, funcs,
          inputs, outputs, fwd, i, emitted>>

----------------------------------------------------------------------------
(* Generic helpers                                                          *)

SeqsUpTo(S, n) == UNION {[1..k -> S] : k \in 0..n}

RECURSIVE Flatten(_)
Flatten(ss) == IF ss = <<>> THEN <<>> ELSE Head(ss) \o Flatten(Tail(ss))

Min2(a, b) == IF a < b THEN a ELSE b

Rep(c, n) == [k \in 1..n |-> c]

----------------------------------------------------------------------------
(* Go's strings package, on character sequences                             *)

\* strings.Index: 1-based position of the first occurrence of sep, 0 if none
Index(s, sep) ==
    LET hits == {k \in 1..(Len(s) - Len(sep) + 1) : SubSeq(s, k, k + Len(sep) - 1) = sep}
    IN  IF hits = {} THEN 0 ELSE CHOOSE k \in hits : \A h \in hits : k <= h

\* strings.Contains
Contains(s, sub) == sub = <<>> \/ Index(s, sub) # 0

\* strings.Split with a non-empty separator: leftmost non-overlapping cuts
RECURSIVE Split(_, _)
Split(s, sep) ==
    LET k == Index(s, sep)
    IN  IF k = 0 THEN <<s>>
        ELSE <<SubSeq(s, 1, k - 1)>> \o Split(SubSeq(s, k + Len(sep), Len(s)), sep)

\* strings.ReplaceAll for a one-character old string
RECURSIVE ReplaceAll(_, _, _)
ReplaceAll(s, old, new) ==
    IF s = <<>> THEN <<>>
    ELSE (IF Head(s) = old THEN new ELSE <<Head(s)>>) \o ReplaceAll(Tail(s), old, new)

IsSpace(c) == c \in {" ", "\t", "\n", "\r"}

\* strings.TrimSpace
RECURSIVE TrimLeft(_)
TrimLeft(s) == IF s # <<>> /\ IsSpace(Head(s)) THEN TrimLeft(Tail(s)) ELSE s

RECURSIVE TrimRight(_)
TrimRight(s) ==
    IF s # <<>> /\ IsSpace(s[Len(s)]) THEN TrimRight(SubSeq(s, 1, Len(s) - 1)) ELSE s

TrimSpace(s) == TrimRight(TrimLeft(s))

\* strings.Join
RECURSIVE Join(_, _)
Join(elems, sep) ==
    IF elems = <<>> THEN <<>>
    ELSE IF Len(elems) = 1 THEN elems[1]
    ELSE elems[1] \o sep \o Join(Tail(elems), sep)

ARROW == <<" ", "-", ">", " ">>
COMMA == <<",">>
COMMASP == <<",", " ">>

----------------------------------------------------------------------------
(* getInputsAndOutput                                                       *)

TrimAll(sps) == [k \in 1..Len(sps) |-> TrimSpace(sps[k])]

\* a mutant: a pattern with more than one arrow is accepted
getInputsAndOutputLoose(u) ==
    LET u1 == ReplaceAll(u, "(", <<" ">>)
        u2 == ReplaceAll(u1, ")", <<" ">>)
        splits == Split(u2, ARROW)
    IN  IF Len(splits) < 2
        THEN [err |-> TRUE, inputs |-> <<>>, outputs |-> <<>>]
        ELSE [err |-> FALSE,
              inputs |-> TrimAll(Split(splits[1], COMMA)),
              outputs |-> TrimAll(Split(splits[2], COMMA))]

getInputsAndOutput(u) ==
    LET u1 == ReplaceAll(u, "(", <<" ">>)
        u2 == ReplaceAll(u1, ")", <<" ">>)
        splits == Split(u2, ARROW)
    IN  IF Len(splits) # 2
        THEN [err |-> TRUE, inputs |-> <<>>, outputs |-> <<>>]
        ELSE [err |-> FALSE,
              inputs |-> TrimAll(Split(splits[1], COMMA)),
              outputs |-> TrimAll(Split(splits[2], COMMA))]

----------------------------------------------------------------------------
(* contains and filterIncludes                                              *)

\* the characters contains() escapes before compiling the token
ESCAPED == <<"[", "]", "*", ".", "{", "}", "(", ")">>

\* the loop of strings.ReplaceAll(test, c, "\\"+c) over ESCAPED, in order
RECURSIVE Escape(_, _)
Escape(test, cs) ==
    IF cs = <<>> THEN test
    ELSE Escape(ReplaceAll(test, Head(cs), <<"\\", Head(cs)>>), Tail(cs))

\* regexp syntax, for patterns made of literal characters, escaped characters
\* (a backslash and the character) and the alternation bar: the literal
\* strings the pattern stands for, one per alternative.
RECURSIVE Alternatives(_, _, _)
Alternatives(p, cur, acc) ==
    IF p = <<>> THEN Append(acc, cur)
    ELSE IF Head(p) = "\\" /\ Len(p) >= 2
         THEN Alternatives(SubSeq(p, 3, Len(p)), Append(cur, p[2]), acc)
    ELSE IF Head(p) = "|"
         THEN Alternatives(Tail(p), <<>>, Append(acc, cur))
    ELSE Alternatives(Tail(p), Append(cur, Head(p)), acc)

\* regexp.MustCompile(test).MatchString(arg): an unanchored match
MatchString(test, arg) ==
    LET alts == Alternatives(test, <<>>, <<>>)
    IN  \E k \in 1..Len(alts) : Contains(arg, alts[k])

contains(items, tests) ==
    \A t \in 1..Len(tests) :
        LET test == Escape(tests[t], ESCAPED)
        IN  \E a \in 1..Len(items) : MatchString(test, items[a])

\* a mutant: the early exit on too few values is gone
filterIncludesNoPrecheck(fs, ins, outs) ==
    LET keep(f) == contains(f.Args, ins) /\ contains(f.Rets, outs)
    IN  SelectSeq(fs, keep)

filterIncludes(fs, ins, outs) ==
    LET keep(f) ==
            /\ ~(Len(f.Args) < Len(ins) \/ Len(f.Rets) < Len(outs))
            /\ ~(~contains(f.Args, ins) \/ ~contains(f.Rets, outs))
    IN  SelectSeq(fs, keep)

----------------------------------------------------------------------------
(* Func.Signature and levenshtein.ComputeDistance                           *)

\* a mutant: the tokens are joined by "," alone
SignatureCommaOnly(f) ==
    <<"(", " ">> \o Join(f.Args, COMMA) \o <<" ", ")", " ", "-", ">", " ", "(", " ">>
        \o Join(f.Rets, COMMA) \o <<" ", ")">>

\* a mutant: no space inside the parentheses
SignatureTight(f) ==
    <<"(">> \o Join(f.Args, COMMASP) \o <<")", " ", "-", ">", " ", "(">>
        \o Join(f.Rets, COMMASP) \o <<")">>

\* fmt.Sprintf("( %s ) -> ( %s )", Join(Args, ", "), Join(Rets, ", "))
Signature(f) ==
    <<"(", " ">> \o Join(f.Args, COMMASP) \o <<" ", ")", " ", "-", ">", " ", "(", " ">>
        \o Join(f.Rets, COMMASP) \o <<" ", ")">>

Min3(a, b, c) == Min2(Min2(a, b), c)

\* one pass of the inner loop: the row of s2's character c from the row x
\* (the test on Len(next) only makes the row a value before the next step)
RECURSIVE FillRow(_, _, _, _, _)
FillRow(x, s1, c, j, row) ==
    IF j > Len(s1) THEN row
    ELSE LET prev == row[Len(row)]
             current == IF c = s1[j] THEN x[j]
                        ELSE Min3(x[j] + 1, prev + 1, x[j + 1] + 1)
             next == Append(row, current)
         IN  IF Len(next) > 0 THEN FillRow(x, s1, c, j + 1, next) ELSE next

RECURSIVE Rows(_, _, _, _)
Rows(x, s1, s2, r) ==
    IF r > Len(s2) THEN x
    ELSE LET next == FillRow(x, s1, s2[r], 1, <<r>>)
         IN  IF Len(next) > 0 THEN Rows(next, s1, s2, r + 1) ELSE next

\* github.com/agnivade/levenshtein ComputeDistance: the single-row dynamic
\* programme over the shorter string
ComputeDistance(a, b) ==
    IF a = <<>> THEN Len(b)
    ELSE IF b = <<>> THEN Len(a)
    ELSE IF a = b THEN 0
    ELSE LET s1 == IF Len(a) > Len(b) THEN b ELSE a
             s2 == IF Len(a) > Len(b) THEN a ELSE b
         IN  Rows([j \in 1..(Len(s1) + 1) |-> j - 1], s1, s2, 1)[Len(s1) + 1]

----------------------------------------------------------------------------
(* sortByDistance                                                           *)

distanceMapOf(fs, u) ==
    [k \in 1..Len(fs) |-> [Func |-> fs[k], Distance |-> ComputeDistance(u, Signature(fs[k]))]]

RemoveAt(s, k) == SubSeq(s, 1, k - 1) \o SubSeq(s, k + 1, Len(s))

\* every arrangement of dm in which no element is less than an earlier one
RECURSIVE Ordered(_)
Ordered(dm) ==
    IF dm = <<>> THEN {<<>>}
    ELSE UNION {{<<dm[k]>> \o rest : rest \in Ordered(RemoveAt(dm, k))} :
                k \in {m \in 1..Len(dm) :
                          \A n \in 1..Len(dm) : ~(dm[n].Distance < dm[m].Distance)}}

\* sort.Slice with less = (Distance <): the slice ends up ordered by less; the
\* order of elements that compare equal is not guaranteed (the sort is not
\* stable), so every ordered arrangement is a possible outcome.
SortSlice(dm) == Ordered(dm)

\* a mutant: the list is returned in input order
sortByDistanceUnsorted(fs, u) == {distanceMapOf(fs, u)}

\* the set of lists sortByDistance may return
sortByDistance(fs, u) == SortSlice(distanceMapOf(fs, u))

\* the emission cut-off of main
CutoffIndex == 10
CutoffDistance == 30

----------------------------------------------------------------------------
(* main                                                                     *)

getLanguage(ext) == IF ext = ".go" THEN "golang" ELSE ""

\* the callback of filepath.Walk over the tree, entry by entry; a file's Path
\* is its position in the tree
RECURSIVE Walk(_, _)
Walk(t, k) ==
    IF k > Len(t) THEN <<>>
    ELSE (IF ~t[k].walkErr /\ ~t[k].isDir /\ getLanguage(t[k].ext) # ""
          THEN <<[Language |-> getLanguage(t[k].ext), Path |-> k]>>
          ELSE <<>>) \o Walk(t, k + 1)

\* getFuncs on a file that parses: one Func per function declaration
getFuncs(e, f) ==
    [k \in 1..Len(e.decls) |->
        [Path |-> f.Path, Loc |-> e.decls[k].Loc, Name |-> e.decls[k].Name,
         Args |-> e.decls[k].Args, Rets |-> e.decls[k].Rets]]

\* main, lines 28-57: the arguments and the walk
Start ==
    /\ pc = "start"
    /\ IF Len(args) < 1
       THEN /\ pc' = "fatal"
            /\ UNCHANGED <<uinput, files, fileIdx>>
       ELSE /\ uinput' = args[1]
            /\ files' = Walk(tree, 1)
            /\ fileIdx' = 1
            /\ pc' = IF Walk(tree, 1) = <<>> THEN "match" ELSE "extract"
    /\ UNCHANGED <<args, match, tree, processed, funcs, inputs, outputs, fwd, i, emitted>>

\* a mutant: a file that cannot be read or parsed is skipped
ExtractStepSkip ==
    /\ pc = "extract"
    /\ LET f == files[fileIdx]
           e == tree[f.Path]
       IN  /\ processed' = Append(processed, f.Path)
           /\ funcs' = IF e.outcome = "ok" THEN funcs \o getFuncs(e, f) ELSE funcs
           /\ fileIdx' = fileIdx + 1
           /\ pc' = IF fileIdx + 1 > Len(files) THEN "match" ELSE "extract"
    /\ UNCHANGED <<args, match, tree, uinput, files, inputs, outputs, fwd, i, emitted>>

\* main, lines 60-74: one iteration of the extraction loop
ExtractStep ==
    /\ pc = "extract"
    /\ LET f == files[fileIdx]
           e == tree[f.Path]
       IN  /\ processed' = Append(processed, f.Path)
           /\ IF e.outcome = "readerr" \/ f.Language # "golang" \/ e.outcome = "parseerr"
              THEN /\ pc' = "fatal"
                   /\ UNCHANGED <<funcs, fileIdx>>
              ELSE /\ funcs' = funcs \o getFuncs(e, f)
                   /\ fileIdx' = fileIdx + 1
                   /\ pc' = IF fileIdx + 1 > Len(files) THEN "match" ELSE "extract"
    /\ UNCHANGED <<args, match, tree, uinput, files, inputs, outputs, fwd, i, emitted>>

\* a mutant: a query that does not parse is ignored
MatchStepLenient ==
    /\ pc = "match"
    /\ LET r == getInputsAndOutput(uinput)
       IN  /\ inputs' = r.inputs
           /\ outputs' = r.outputs
           /\ funcs' = IF match = "includes" /\ ~r.err
                       THEN filterIncludes(funcs, r.inputs, r.outputs) ELSE funcs
           /\ pc' = "rank"
    /\ UNCHANGED <<args, match, tree, uinput, files, fileIdx, processed, fwd, i, emitted>>

\* main, lines 76-86: the query and the matching mode
MatchStep ==
    /\ pc = "match"
    /\ LET r == getInputsAndOutput(uinput)
       IN  IF r.err
           THEN /\ pc' = "fatal"
                /\ UNCHANGED <<inputs, outputs, funcs>>
           ELSE /\ inputs' = r.inputs
                /\ outputs' = r.outputs
                /\ funcs' = IF match = "includes"
                            THEN filterIncludes(funcs, r.inputs, r.outputs) ELSE funcs
                /\ pc' = "rank"
    /\ UNCHANGED <<args, match, tree, uinput, files, fileIdx, processed, fwd, i, emitted>>

\* main, line 88
RankStep ==
    /\ pc = "rank"
    /\ \E out \in sortByDistance(funcs, uinput) :
          /\ fwd' = out
          /\ pc' = IF out = <<>> THEN "done" ELSE "emit"
    /\ i' = 0
    /\ UNCHANGED <<args, match, tree, uinput, files, fileIdx, processed, funcs,
                   inputs, outputs, emitted>>

\* a mutant: the loop stops before printing the entry that triggers the stop
EmitStepBreakFirst ==
    /\ pc = "emit"
    /\ LET f == fwd[i + 1]
       IN  IF i > CutoffIndex /\ f.Distance > CutoffDistance
           THEN /\ pc' = "done"
                /\ UNCHANGED <<emitted, i>>
           ELSE /\ emitted' = Append(emitted, f.Func)
                /\ IF i + 1 >= Len(fwd)
                   THEN pc' = "done" /\ i' = i
                   ELSE pc' = "emit" /\ i' = i + 1
    /\ UNCHANGED <<args, match, tree, uinput, files, fileIdx, processed, funcs,
                   inputs, outputs, fwd>>

\* main, lines 90-96: one iteration of the emission loop
EmitStep ==
    /\ pc = "emit"
    /\ LET f == fwd[i + 1]
       IN  /\ emitted' = Append(emitted, f.Func)
           /\ IF (i > CutoffIndex /\ f.Distance > CutoffDistance) \/ i + 1 >= Len(fwd)
              THEN pc' = "done" /\ i' = i
              ELSE pc' = "emit" /\ i' = i + 1
    /\ UNCHANGED <<args, match, tree, uinput, files, fileIdx, processed, funcs,
                   inputs, outputs, fwd>>

Next == Start \/ ExtractStep \/ MatchStep \/ RankStep \/ EmitStep

----------------------------------------------------------------------------
(* The whole program on small trees                                         *)

MaxEntries == 2

Decl(name, row, as, rs) == [Name |-> name, Loc |-> <<row, 0>>, Args |-> as, Rets |-> rs]

Entry(ext, isDir, walkErr, outcome, decls) ==
    [ext |-> ext, isDir |-> isDir, walkErr |-> walkErr, outcome |-> outcome, decls |-> decls]

GoFile(decls) == Entry(".go", FALSE, FALSE, "ok", decls)

EntryKinds ==
    { Entry("", TRUE, FALSE, "ok", <<>>),
      Entry(".go", FALSE, TRUE, "ok", <<>>),
      Entry(".py", FALSE, FALSE, "ok", <<>>),
      Entry(".go", FALSE, FALSE, "readerr", <<>>),
      Entry(".go", FALSE, FALSE, "parseerr", <<>>),
      GoFile(<<Decl("f", 0, <<<<"a">>>>, <<<<"b">>>>)>>),
      GoFile(<<Decl("g", 0, <<<<"b">>, <<"a">>>>, <<>>),
               Decl("h", 3, <<<<"a">>>>, <<<<"b">>>>)>>) }

MainQueries ==
    { <<"(", " ", "a", " ", ")", " ", "-", ">", " ", "(", " ", "b", " ", ")">>,
      <<"(", "b", ")", " ", "-", ">", " ", "(", ")">>,
      <<"(", "a", ")", " ", "(", "b", ")">>,
      <<"a", " ", "-", ">", " ", "b", " ", "-", ">", " ", "a">> }

Modes == {"default", "includes", "fuzzy"}

Blank ==
    /\ uinput = <<>>
    /\ files = <<>>
    /\ fileIdx = 1
    /\ processed = <<>>
    /\ funcs = <<>>
    /\ inputs = <<>>
    /\ outputs = <<>>
    /\ fwd = <<>>
    /\ i = 0
    /\ emitted = <<>>

Init ==
    /\ args \in {<<>>} \cup {<<q>> : q \in MainQueries}
    /\ match \in Modes
    /\ tree \in SeqsUpTo(EntryKinds, MaxEntries)
    /\ pc = "start"
    /\ Blank

Spec == Init /\ [][Next]_vars

----------------------------------------------------------------------------
(* Claims about the whole program                                           *)

PastExtraction == pc \in {"match", "rank", "emit", "done"}

FailedFiles == {k \in 1..Len(files) : tree[files[k].Path].outcome # "ok"}

FirstFailed == CHOOSE k \in FailedFiles : \A m \in FailedFiles : k <= m

QueryInvalid == Len(args) >= 1 /\ getInputsAndOutput(args[1]).err

\* C9: whatever the matching mode and the source files, a run whose query
\* does not parse never reaches ranking or emission: not one result line is
\* printed, and the run can only end in the fatal exit.
C9_InvalidQueryFatal ==
    QueryInvalid =>
        /\ emitted = <<>>
        /\ fwd = <<>>
        /\ pc \in {"start", "extract", "match", "fatal"}

\* the parse itself has aborted a run whose files were all extracted
C9_Witness ==
    /\ QueryInvalid
    /\ pc = "fatal"
    /\ funcs # <<>>
    /\ Len(processed) = Len(files)
    /\ FailedFiles = {}

\* C10: files are processed in discovery order; nothing is ranked or printed
\* before every discovered file has been read and extracted; and when a file
\* fails, the run is fatal at that first failure, with no later file
\* processed and no line printed.
C10_BatchOrdering ==
    /\ Len(processed) <= Len(files)
    /\ \A k \in 1..Len(processed) : processed[k] = files[k].Path
    /\ (PastExtraction \/ fwd # <<>> \/ emitted # <<>>) =>
          /\ Len(processed) = Len(files)
          /\ FailedFiles = {}
    /\ FailedFiles # {} =>
          /\ emitted = <<>>
          /\ fwd = <<>>
          /\ Len(processed) <= FirstFailed
          /\ (Len(processed) = FirstFailed => pc = "fatal")
          /\ (Len(processed) < FirstFailed => pc \in {"extract"})

\* the first of two discovered files failed: the second was never processed
C10_Witness ==
    /\ pc = "fatal"
    /\ Len(files) = 2
    /\ Len(processed) = 1
    /\ tree[files[2].Path].outcome = "ok"

----------------------------------------------------------------------------
(* The query parser on every short pattern                                  *)

MaxPieces == 4

\* a pattern is a concatenation of at most MaxPieces of these
PatternPieces ==
    {ARROW, <<"(">>, <<")">>, <<",">>, <<" ">>, <<"a">>, <<"-">>, <<">">>}

Patterns == {Flatten(ps) : ps \in SeqsUpTo(PatternPieces, MaxPieces)}

\* a run in an empty tree: no file is extracted and nothing is printed
InitParse ==
    /\ args \in {<<p>> : p \in Patterns}
    /\ match = "default"
    /\ tree = <<>>
    /\ pc = "start"
    /\ Blank

NextParse == Start \/ MatchStep \/ RankStep

SpecParse == InitParse /\ [][NextParse]_vars

\* The parsing algorithm, stated on positions instead of by cutting.
Blanked(p) == [k \in 1..Len(p) |-> IF p[k] \in {"(", ")"} THEN " " ELSE p[k]]

Deleted(p) == LET keep(c) == c \notin {"(", ")"} IN SelectSeq(p, keep)

ArrowsAt(s) == {k \in 1..(Len(s) - 3) : <<s[k], s[k + 1], s[k + 2], s[k + 3]>> = ARROW}

FirstArrow(s) == CHOOSE k \in ArrowsAt(s) : \A m \in ArrowsAt(s) : k <= m

\* splitting on the arrow gives exactly two segments
OneArrow(s) == ArrowsAt(s) # {} /\ \A m \in ArrowsAt(s) : m < FirstArrow(s) + 4

Trimmed(t) ==
    LET solid == {k \in 1..Len(t) : ~IsSpace(t[k])}
    IN  IF solid = {} THEN <<>>
        ELSE SubSeq(t, CHOOSE k \in solid : \A m \in solid : k <= m,
                       CHOOSE k \in solid : \A m \in solid : m <= k)

\* the pieces of seg between its commas, trimmed
TokensOf(seg) ==
    LET commas == {k \in 1..Len(seg) : seg[k] = ","}
        cuts == commas \cup {0, Len(seg) + 1}
        start(n) == CHOOSE c \in cuts : Cardinality({d \in cuts : d < c}) = n - 1
        stop(n) == CHOOSE c \in cuts : Cardinality({d \in cuts : d < c}) = n
    IN  [n \in 1..(Cardinality(commas) + 1) |-> Trimmed(SubSeq(seg, start(n) + 1, stop(n) - 1))]

Outcome(s) ==
    IF ~OneArrow(s) THEN [err |-> TRUE, inputs |-> <<>>, outputs |-> <<>>]
    ELSE [err |-> FALSE,
          inputs |-> TokensOf(SubSeq(s, 1, FirstArrow(s) - 1)),
          outputs |-> TokensOf(SubSeq(s, FirstArrow(s) + 4, Len(s)))]

ParseAgrees(expected) ==
    /\ pc = "fatal" => expected.err
    /\ pc \in {"rank", "done"} =>
          /\ ~expected.err
          /\ inputs = expected.inputs
          /\ outputs = expected.outputs

\* C8, as stated: the parser's outcome is that of deleting every parenthesis,
\* splitting on " -> ", failing unless there are exactly two segments, then
\* splitting each segment on "," and trimming the pieces.
C8_ParserDeletesParens == ParseAgrees(Outcome(Deleted(uinput)))

\* C8, amended: the same with every parenthesis replaced by a space instead
\* of deleted; in particular a pattern in which no " -> " results is rejected.
C8_ParserBlanksParens ==
    /\ ParseAgrees(Outcome(Blanked(uinput)))
    /\ (pc \in {"rank", "done"} => ArrowsAt(Blanked(uinput)) # {})

\* "(a -> " parsed: the parenthesis became a space that the trim removed
C8_Witness ==
    /\ pc = "rank"
    /\ uinput = <<"(", "a">> \o ARROW
    /\ inputs = <<<<"a">>>>
    /\ outputs = <<<<>>>>

----------------------------------------------------------------------------
(* "includes" matching of one record against every small query              *)

MaxArgs == 2
MaxRequested == 2

\* type tokens of a declaration
ActualTokens == { <<"a">>, <<"b">>, <<"[", "]", "a">>, <<"*", "a", "b">> }

RetChoices == { <<>>, <<<<"a">>>>, <<<<"*", "a", "b">>, <<"b">>>> }

\* tokens of a query
RequestedTokens == { <<"a">>, <<"[", "]", "a">>, <<"b", "|", "c">> }

OutChoices == { <<>>, <<<<"a">>>>, <<<<"b", "|", "c">>>> }

\* the query text "(i1, i2) -> (o1)"
QueryText(ins, outs) ==
    <<"(">> \o Join(ins, COMMASP) \o <<")">> \o ARROW \o <<"(">> \o Join(outs, COMMASP) \o <<")">>

InitFilter ==
    /\ \E ins \in SeqsUpTo(RequestedTokens, MaxRequested), outs \in OutChoices :
          args = <<QueryText(ins, outs)>>
    /\ match = "includes"
    /\ \E as \in SeqsUpTo(ActualTokens, MaxArgs), rs \in RetChoices :
          tree = <<GoFile(<<Decl("f", 0, as, rs)>>)>>
    /\ pc = "start"
    /\ Blank

NextFilter == Start \/ ExtractStep \/ MatchStep

SpecFilter == InitFilter /\ [][NextFilter]_vars

\* the record of the one file, as extracted
TheRecord == getFuncs(tree[1], [Language |-> "golang", Path |-> 1])[1]

Filtered == pc = "rank" /\ match = "includes"

\* every requested token is a literal substring of some actual token
LiterallySatisfied(items, tests) ==
    \A t \in 1..Len(tests) : \E a \in 1..Len(items) :
        \E k \in 0..(Len(items[a]) - Len(tests[t])) :
            \A n \in 1..Len(tests[t]) : items[a][k + n] = tests[t][n]

PassesPrecheck(f) == Len(f.Args) >= Len(inputs) /\ Len(f.Rets) >= Len(outputs)

\* C6: a record that passes the cardinality pre-check is kept if and only if
\* every requested input token is a literal substring of one of its args and
\* every requested output token is a literal substring of one of its rets.
C6_LiteralContainment ==
    (Filtered /\ PassesPrecheck(TheRecord)) =>
        (funcs = <<TheRecord>>
            <=> /\ LiterallySatisfied(TheRecord.Args, inputs)
                /\ LiterallySatisfied(TheRecord.Rets, outputs))

\* C7: in includes mode no kept record has fewer args than the parsed query has
\* input tokens, or fewer rets than it has output tokens; the parser gives
\* each side at least one token, so a record with no args, or with no rets,
\* is never kept.
C7_CardinalityPrecheck ==
    Filtered =>
        /\ Len(inputs) >= 1 /\ Len(outputs) >= 1
        /\ funcs \in {<<>>, <<TheRecord>>}
        /\ \A k \in 1..Len(funcs) :
              /\ Len(funcs[k].Args) >= Len(inputs)
              /\ Len(funcs[k].Rets) >= Len(outputs)
              /\ funcs[k].Args # <<>>
              /\ funcs[k].Rets # <<>>

\* a record dropped by the pre-check alone: its one arg satisfies both
\* requested tokens
C7_Witness ==
    /\ Filtered
    /\ funcs = <<>>
    /\ Len(TheRecord.Args) = 1
    /\ Len(inputs) = 2
    /\ Len(TheRecord.Rets) >= Len(outputs)
    /\ contains(TheRecord.Args, inputs)
    /\ contains(TheRecord.Rets, outputs)

----------------------------------------------------------------------------
(* Ranking of every short list of records                                   *)

MaxFuncs == 3

\* the (args, rets) of a declaration
SigPool ==
    { <<<<<<"a">>>>, <<<<"b">>>>>>,
      <<<<>>, <<>>>>,
      <<<<<<"a">>, <<"b">>>>, <<>>>>,
      <<<<<<"b">>>>, <<<<"a">>>>>> }

RankQueries ==
    { <<"(", " ", "a", " ", ")", " ", "-", ">", " ", "(", " ", "b", " ", ")">>,
      <<"(", "a", ")", " ", "-", ">", " ", "(", "b", ")">>,
      <<"(", " ", " ", ")", " ", "-", ">", " ", "(", " ", " ", ")">>,
      <<"(", " ", ")", " ", "-", ">", " ", "(", " ", ")">> }

\* one file declaring the functions of sigs, one per row
FileOf(sigs) == GoFile([k \in 1..Len(sigs) |-> Decl("f", k - 1, sigs[k][1], sigs[k][2])])

InitRank ==
    /\ args \in {<<q>> : q \in RankQueries}
    /\ match = "default"
    /\ \E sigs \in SeqsUpTo(SigPool, MaxFuncs) : sigs # <<>> /\ tree = <<FileOf(sigs)>>
    /\ pc = "start"
    /\ Blank

\* the run up to the ranked list
NextRank == Start \/ ExtractStep \/ MatchStep \/ RankStep

SpecRank == InitRank /\ [][NextRank]_vars

Ranked == pc \in {"emit", "done"} /\ i = 0 /\ emitted = <<>>

\* The edit distance by its defining recurrence over prefixes, column by
\* column: col[m + 1] is the distance from the first m characters of a.
RECURSIVE EditColumn(_, _, _, _)
EditColumn(prevCol, a, c, col) ==
    IF Len(col) > Len(a) THEN col
    ELSE LET m == Len(col)
             cell == Min3(prevCol[m + 1] + 1, col[m] + 1,
                          prevCol[m] + (IF a[m] = c THEN 0 ELSE 1))
             next == Append(col, cell)
         IN  IF Len(next) > 0 THEN EditColumn(prevCol, a, c, next) ELSE next

RECURSIVE EditColumns(_, _, _, _)
EditColumns(col, a, b, n) ==
    IF n > Len(b) THEN col
    ELSE LET next == EditColumn(col, a, b[n], <<n>>)
         IN  IF Len(next) > 0 THEN EditColumns(next, a, b, n + 1) ELSE next

Levenshtein(a, b) == EditColumns([m \in 1..(Len(a) + 1) |-> m - 1], a, b, 1)[Len(a) + 1]

Occurrences(s, e) == Cardinality({k \in 1..Len(s) : s[k] = e})

RankedFuncs == [k \in 1..Len(fwd) |-> fwd[k].Func]

\* C2: the ranked list holds every input record exactly once, unaltered, each
\* with the Levenshtein distance between the raw query and its Signature(),
\* in non-decreasing order of distance.
C2_RankedPermutation ==
    Ranked =>
        /\ Len(fwd) = Len(funcs)
        /\ \A k \in 1..Len(funcs) :
              Occurrences(RankedFuncs, funcs[k]) = Occurrences(funcs, funcs[k])
        /\ \A k \in 1..Len(fwd) :
              fwd[k].Distance = Levenshtein(uinput, Signature(fwd[k].Func))
        /\ \A k \in 1..(Len(fwd) - 1) : fwd[k].Distance <= fwd[k + 1].Distance

\* the ranking moved a closer record ahead of the first one
C2_Witness ==
    /\ pc = "emit"
    /\ Len(fwd) >= 2
    /\ fwd[1].Func = funcs[2]
    /\ fwd[1].Distance < fwd[2].Distance

PositionIn(s, e) == CHOOSE k \in 1..Len(s) : s[k] = e

\* C3: records of equal distance keep their input order in the ranked list.
C3_StableRanking ==
    Ranked =>
        \A a, b \in 1..Len(fwd) :
            (a < b /\ fwd[a].Distance = fwd[b].Distance) =>
                PositionIn(funcs, fwd[a].Func) < PositionIn(funcs, fwd[b].Func)

\* The canonical form, assembled token by token.
Interleaved(tokens) ==
    Flatten([k \in 1..(2 * Len(tokens) - 1) |->
                IF k % 2 = 1 THEN tokens[(k + 1) \div 2] ELSE <<",", " ">>])

SideAsClaimed(tokens) ==
    IF tokens = <<>> THEN <<"(", " ", ")">>
    ELSE <<"(", " ">> \o Interleaved(tokens) \o <<" ", ")">>

SideAsBuilt(tokens) == <<"(", " ">> \o Interleaved(tokens) \o <<" ", ")">>

\* C5, as stated: "( " args " ) -> ( " rets " )" with ", " between tokens, an
\* empty list rendered "( )" with one space.
C5_EmptySideOneSpace ==
    \A k \in 1..Len(funcs) :
        Signature(funcs[k]) =
            SideAsClaimed(funcs[k].Args) \o <<" ", "-", ">", " ">> \o SideAsClaimed(funcs[k].Rets)

\* C5, amended: the same format, in which an empty list is rendered "(  )":
\* the space after "(" and the space before ")" are both kept.  Every
\* distance of the ranking is the distance to that string, so records with
\* the same args and rets get the same distance.
C5_SignatureFormat ==
    /\ \A k \in 1..Len(funcs) :
          Signature(funcs[k]) =
              SideAsBuilt(funcs[k].Args) \o <<" ", "-", ">", " ">> \o SideAsBuilt(funcs[k].Rets)
    /\ Ranked =>
          /\ \A k \in 1..Len(fwd) :
                fwd[k].Distance =
                    Levenshtein(uinput, SideAsBuilt(fwd[k].Func.Args)
                                          \o <<" ", "-", ">", " ">> \o SideAsBuilt(fwd[k].Func.Rets))
          /\ \A j, k \in 1..Len(fwd) :
                (fwd[j].Func.Args = fwd[k].Func.Args /\ fwd[j].Func.Rets = fwd[k].Func.Rets)
                    => fwd[j].Distance = fwd[k].Distance

\* a record without args or rets ranked at distance 0 from "(  ) -> (  )"
C5_Witness ==
    /\ Ranked
    /\ uinput = <<"(", " ", " ", ")", " ", "-", ">", " ", "(", " ", " ", ")">>
    /\ \E k \in 1..Len(fwd) :
          fwd[k].Func.Args = <<>> /\ fwd[k].Func.Rets = <<>> /\ fwd[k].Distance = 0

----------------------------------------------------------------------------
(* The exact-signature scenario                                             *)

MaxDecls == 2

tInt == <<"i", "n", "t">>
tString == <<"s", "t", "r", "i", "n", "g">>
tBool == <<"b", "o", "o", "l">>
tError == <<"e", "r", "r", "o", "r">>

\* func Foo(a int, b string) (bool, error), and its neighbours
FooDecl(row) == Decl("Foo", row, <<tInt, tString>>, <<tBool, tError>>)

OtherDecls(row) ==
    { Decl("Bar", row, <<tInt, tString>>, <<tBool, tError>>),
      Decl("Baz", row, <<tInt>>, <<tError>>),
      Decl("Qux", row, <<>>, <<>>) }

\* "(int, string) -> (bool, error)"
QueryAsTyped == QueryText(<<tInt, tString>>, <<tBool, tError>>)

\* "( int, string ) -> ( bool, error )"
QueryCanonical ==
    <<"(", " ">> \o Join(<<tInt, tString>>, COMMASP) \o <<" ", ")">> \o ARROW
        \o <<"(", " ">> \o Join(<<tBool, tError>>, COMMASP) \o <<" ", ")">>

\* a file that declares Foo among at most MaxDecls other functions
InitExact ==
    /\ args \in {<<QueryAsTyped>>, <<QueryCanonical>>}
    /\ match = "default"
    /\ \E n \in 0..MaxDecls, at \in 0..MaxDecls :
          /\ at <= n
          /\ \E ds \in [0..n -> UNION {OtherDecls(r) \cup {FooDecl(r)} : r \in 0..n}] :
                /\ \A r \in 0..n : ds[r].Loc = <<r, 0>>
                /\ ds[at] = FooDecl(at)
                /\ tree = <<GoFile([k \in 1..(n + 1) |-> ds[k - 1]])>>
    /\ pc = "start"
    /\ Blank

SpecExact == InitExact /\ [][Next]_vars

IsFoo(f) == f.Name = "Foo"

FooRanks == {k \in 1..Len(fwd) : IsFoo(fwd[k].Func)}

\* C4, as stated: for the query "(int, string) -> (bool, error)" Foo is the
\* first emitted result and its distance is 0.
C4_ExactQueryDistanceZero ==
    (pc = "done" /\ uinput = QueryAsTyped) =>
        /\ IsFoo(emitted[1])
        /\ \A k \in FooRanks : fwd[k].Distance = 0

\* C4, amended: Foo's distance to "(int, string) -> (bool, error)" is 4, the
\* four spaces the canonical string has inside its parentheses; it is 0 for
\* the query "( int, string ) -> ( bool, error )".  Foo is always emitted, no
\* record emitted before it has a larger distance, and Foo is the first
\* result whenever every other record has a larger distance than Foo.
C4_ExactQueryDistance ==
    /\ (pc \in {"emit", "done"} /\ uinput = QueryAsTyped) =>
          \A k \in FooRanks : fwd[k].Distance = 4
    /\ (pc \in {"emit", "done"} /\ uinput = QueryCanonical) =>
          \A k \in FooRanks : fwd[k].Distance = 0
    /\ pc = "done" =>
          /\ \E k \in 1..Len(emitted) : IsFoo(emitted[k])
          /\ \A k \in 1..Len(emitted) : emitted[k] = fwd[k].Func
          /\ \A k \in FooRanks : \A j \in 1..(k - 1) : fwd[j].Distance <= fwd[k].Distance
          /\ (\A k \in FooRanks : \A j \in 1..Len(fwd) :
                  ~IsFoo(fwd[j].Func) => fwd[j].Distance > fwd[k].Distance)
                => IsFoo(emitted[1])

\* the query as typed: Foo, declared second, printed first at distance 4
C4_Witness ==
    /\ pc = "done"
    /\ uinput = QueryAsTyped
    /\ Len(emitted) >= 2
    /\ IsFoo(emitted[1])
    /\ ~IsFoo(funcs[1])
    /\ fwd[1].Distance = 4

----------------------------------------------------------------------------
(* The emission loop on every ranked list of three kinds of record          *)

MaxRanked == 14

EmitQuery == <<"(", " ", "a", " ", ")", " ", "-", ">", " ", "(", " ", "b", " ", ")">>

\* (a) -> (b), and the same with a return type of 1 + n characters
SigNear == <<<<<<"a">>>>, <<<<"b">>>>>>
SigLong(n) == <<<<<<"a">>>>, <<<<"b">> \o Rep("x", n)>>>>

\* n0 records at distance 0, then n1 at the cut-off distance, then n2 beyond it
RankedSigs(n0, n1, n2) ==
    Rep(SigNear, n0) \o Rep(SigLong(CutoffDistance), n1) \o Rep(SigLong(CutoffDistance + 1), n2)

\* the distances sortByDistance computes for the three kinds
SigDistance(sig) == ComputeDistance(EmitQuery, Signature([Args |-> sig[1], Rets |-> sig[2]]))
DistNear == SigDistance(SigNear)
DistEdge == SigDistance(SigLong(CutoffDistance))
DistFar == SigDistance(SigLong(CutoffDistance + 1))

RankedDistances(n0, n1, n2) == Rep(DistNear, n0) \o Rep(DistEdge, n1) \o Rep(DistFar, n2)

\* main after line 88, for one file whose declarations are already in
\* ranked order
InitEmit ==
    \E n0, n1, n2 \in 0..MaxRanked :
        /\ n0 + n1 + n2 \in 1..MaxRanked
        /\ LET t == <<FileOf(RankedSigs(n0, n1, n2))>>
               fs == getFuncs(t[1], Walk(t, 1)[1])
               r == getInputsAndOutput(EmitQuery)
           IN  /\ args = <<EmitQuery>>
               /\ match = "default"
               /\ tree = t
               /\ uinput = EmitQuery
               /\ files = Walk(t, 1)
               /\ fileIdx = 2
               /\ processed = <<1>>
               /\ funcs = fs
               /\ inputs = r.inputs
               /\ outputs = r.outputs
               /\ fwd = [k \in 1..Len(fs) |->
                            [Func |-> fs[k], Distance |-> RankedDistances(n0, n1, n2)[k]]]
               /\ i = 0
               /\ emitted = <<>>
               /\ pc = "emit"

SpecEmit == InitEmit /\ [][EmitStep]_vars

\* zero-based indices at which the loop stops
StopIndices == {k \in 0..(Len(fwd) - 1) : k > 10 /\ fwd[k + 1].Distance > 30}

\* the number of lines the loop prints
EmittedCount ==
    IF StopIndices = {} THEN Len(fwd)
    ELSE (CHOOSE k \in StopIndices : \A m \in StopIndices : k <= m) + 1

\* C1: the loop prints the ranked entries in order, up to and including the
\* first entry at an index above 10 whose distance is above 30, or all of them
\* when there is none.  With 13 or more entries and a distance above 30 at
\* index 11, exactly the entries 0..11 are printed; fewer than 12 lines are
\* printed only for a list of fewer than 12 entries.
C1_EmissionCutoff ==
    /\ \A k \in 1..(Len(fwd) - 1) : fwd[k].Distance <= fwd[k + 1].Distance
    /\ Len(emitted) <= EmittedCount
    /\ \A k \in 1..Len(emitted) : emitted[k] = fwd[k].Func
    /\ pc = "emit" => Len(emitted) = i /\ i < EmittedCount
    /\ pc = "done" =>
          /\ Len(emitted) = EmittedCount
          /\ (Len(fwd) >= 13 /\ fwd[12].Distance > 30) => Len(emitted) = 12
          /\ Len(emitted) < 12 => Len(fwd) < 12

\* a list of 13 or more entries cut after the entry at index 11
C1_Witness ==
    /\ pc = "done"
    /\ Len(fwd) >= 13
    /\ fwd[11].Distance <= 30
    /\ fwd[12].Distance > 30
    /\ Len(emitted) = 12

====
